---- MODULE Spec2Model ----
(***************************************************************************)
(* A model of the edit engine of wn_edit (src/wn_edit/editor.py): the      *)
(* in-memory lexicon document, its four lookup indexes and the operations  *)
(* that mutate them.                                                       *)
(*                                                                         *)
(* Python dictionaries that stand for entries, synsets and senses are      *)
(* objects: the entry list, the synset list and the four indexes all hold  *)
(* references to the same objects.  The model keeps a heap (reference ->   *)
(* record); lists and indexes hold references.                             *)
(*                                                                         *)
(* Identifiers are strings built by '-'.join(...) and f"{a}-{b}".  They    *)
(* are modelled as sequences of '-'-free tokens, and the join as sequence  *)
(* concatenation.  A new entry or synset takes its reference from the      *)
(* counter next, and uuid.uuid4().hex[:8] is modelled as the string of     *)
(* that counter: a value never drawn before (the model does not cover a    *)
(* collision of two 8-digit prefixes).  A new sense takes a (negative)     *)
(* reference that no live object has.                                      *)
(*                                                                         *)
(* A list-valued key that a record lacks ('definitions', 'examples',       *)
(* 'relations', 'senses') is modelled as the empty sequence: the code      *)
(* reads these keys with .get(key, []) or creates them before appending.   *)
(*                                                                         *)
(* The metadata keys of the lexicon ('id', 'version', 'label', ...) are    *)
(* the variable lexicon; a key the dictionary lacks is outside its domain. *)
(* The bulk loader's assembly of the senses of one entry is modelled on    *)
(* its own (SpecSenses): the rows it reads are drawn in the initial state. *)
(***************************************************************************)
EXTENDS Integers, Sequences, FiniteSets, TLC

VARIABLES
    entries,           \* self._lexicon['entries']: sequence of entry references
    synsets,           \* self._lexicon['synsets']: sequence of synset references
    heap,              \* the live objects: reference -> record
    entry_by_id,       \* self._entry_by_id
    synset_by_id,      \* self._synset_by_id
    entries_by_lemma,  \* self._entries_by_lemma
    sense_by_id,       \* self._sense_by_id
    next,              \* the next unused entry/synset reference and uuid
    lexicon,           \* self._lexicon without its lists: the metadata keys
    entry_row,         \* the entry the bulk loader is assembling, if any
    assembly,          \* rows the bulk loader reads and what it makes of them
    loading,           \* the call of _load_from_database in progress, if any
    op,                \* history: the last call, its arguments and outcome
    before             \* history: the document before the last create_synset

vars == <<entries, synsets, heap, entry_by_id, synset_by_id,
          entries_by_lemma, sense_by_id, next, lexicon, entry_row, assembly,
          loading, op, before>>

-----------------------------------------------------------------------------
(* Bounds of the model *)

MaxObjects == 3   \* entries and synsets created in a run
MaxOrderObjects == 4  \* the same, in a run of SpecOrder
MaxLoaded == 3    \* entries and synsets of a lexicon loaded from a database
MaxFormRank == 2  \* the largest rank stored with a form
MaxTexts == 3     \* definitions, and examples, of a synset
MaxRelTexts == 1  \* the same, in a run that adds relations
MaxRels == 2      \* relations in the document
MaxRelsAll == 1   \* the same, in a run of SpecRel
MaxRelObjects == 2  \* entries and synsets created in a run that adds relations
MaxSenses == 3    \* senses of an entry the bulk loader assembles
MaxRank == 3      \* the largest entry_rank stored with a sense

-----------------------------------------------------------------------------
(* Values *)

\* Python's None: as a string argument or error, as an identifier, and as a
\* returned object.
None == "None"
NoId == <<>>
NoRef == 0

\* SQL NULL in the integer column senses.entry_rank, read as None.
NoRank == 0 - 1

\* The set editor.py defines; when the wn package is importable the module
\* takes wn.constants.PARTS_OF_SPEECH instead.
PARTS_OF_SPEECH == {"n", "v", "a", "r", "s"}

\* wn.constants.SYNSET_RELATIONS and SENSE_RELATIONS: the relation types the
\* docstrings of add_synset_relation and add_sense_relation name.
SYNSET_RELATIONS == {"hypernym", "hyponym", "similar"}
SENSE_RELATIONS == {"antonym", "derivation", "pertainym"}

LexiconId == "lex"

\* The defaults of WordnetEditor(create_new=True, lexicon_id=LexiconId)
DefaultEmail == "user@example.com"
DefaultLicense == "https://creativecommons.org/licenses/by/4.0/"

\* The arguments the operations are called with: surface forms, parts of
\* speech ("q" and "" are outside the closed set; None is an omitted
\* argument) and word lists.
Forms == {"dog", "cat"}
SynsetPosArgs == {"n", "q"}
EntryArgs == {<<"dog", "n">>, <<"dog", "v">>, <<"cat", "n">>, <<"dog", "q">>}
WordArgs == {<<"dog", None>>, <<"cat", None>>, <<"dog", "v">>, <<"dog", "q">>,
             <<"dog", "">>}
WordLists == {<<>>, <<"dog">>, <<"dog", "cat">>, <<"dog", "dog">>}
\* Identifiers a caller passes as synset_id= or entry_id=.
ChosenIds == {<<"x">>}
ChosenEntryArgs == {<<"dog", "n">>, <<"cat", "n">>}
ChosenWordLists == {<<>>, <<"dog">>}
\* modify_synset: a replacement definition, additional definitions,
\* additional examples and an ili, each supplied or not.
ModifyArgs == {<<"d1", <<>>, <<>>, None>>, <<None, <<>>, <<"x1">>, "i1">>}
\* modify_synset with lists of several texts, and with several fields at once.
ModifyTextArgs == {<<"d1", <<>>, <<>>, None>>,
                   <<None, <<"d2", "d3">>, <<>>, None>>,
                   <<None, <<>>, <<"x1", "x2">>, None>>,
                   <<None, <<>>, <<>>, "i2">>,
                   <<"d1", <<"d2">>, <<"x1">>, "">>,
                   <<None, <<>>, <<>>, None>>}
\* An ili passed to create_synset.
\* The values the metadata operations are called with, and the arguments of
\* update_metadata: version, label, email, license, url, citation.
MetaValues == {"m"}
UpdateArgs ==
    {<<None, None, None, None, None, None>>,
     <<"1.1", None, None, None, None, None>>,
     <<"1.1", "l", "e", None, "u", "c">>,
     <<None, None, None, "", None, None>>,
     <<None, None, None, None, "", None>>,
     <<"1.1", "l", "e", "", "u", "c">>}

IliArgs == {"i1", ""}
\* A relation type, and the validate flag.
RelArgs == {<<"hypernym", TRUE>>, <<"bogus", TRUE>>, <<"bogus", FALSE>>}

Range(s) == {s[i] : i \in DOMAIN s}

\* d[k] = v on a Python dict
Put(f, k, v) == [x \in (DOMAIN f) \cup {k} |-> IF x = k THEN v ELSE f[x]]

\* d.pop(k, None) for every k of ks
Pop(f, ks) == [x \in (DOMAIN f) \ ks |-> f[x]]

\* d.get(k, default)
Get(f, k, default) == IF k \in DOMAIN f THEN f[k] ELSE default

Empty == [x \in {} |-> None]

\* bool(x) of an optional string: None and the empty string are false.
Truthy(x) == x # None /\ x # ""

-----------------------------------------------------------------------------
(* Record constructors *)

\* A validation that accepts every value.
validate_pos_any(pos) == None

validate_pos(pos) == IF pos \notin PARTS_OF_SPEECH THEN "ValueError" ELSE None

make_lemma(written_form, pos) ==
    IF validate_pos(pos) # None
    THEN [err |-> validate_pos(pos), val |-> None]
    ELSE [err |-> None,
          val |-> [writtenForm |-> written_form, partOfSpeech |-> pos]]

make_lexical_entry(id, lemma) ==
    [id |-> id, lemma |-> lemma, senses |-> <<>>, relations |-> <<>>]

make_sense(id, synset) == [id |-> id, synset |-> synset, relations |-> <<>>]

make_definition(text) == [text |-> text]

\* The relation, and whether the UserWarning was issued.
make_relation(target, rel_type, validate, relation_kind) ==
    LET valid_relations == IF relation_kind = "synset"
                           THEN SYNSET_RELATIONS
                           ELSE SENSE_RELATIONS
    IN [val |-> [target |-> target, relType |-> rel_type],
        warn |-> validate /\ rel_type \notin valid_relations]

make_example(text) == [text |-> text]

\* The keys of a lexicon other than its lists; 'url' and 'citation' are
\* absent until they are set.
make_lexicon(id, label, language, email, license, version) ==
    [id |-> id, label |-> label, language |-> language, email |-> email,
     license |-> license, version |-> version, meta |-> None]

\* 'ili': ili or ''.  The optional keys definitions, examples and relations
\* are present exactly when non-empty; an absent key is the empty sequence.
\* A synset that keeps the ili it is given, None included.
make_synset_null_ili(id, pos, ili, definitions, examples) ==
    IF validate_pos(pos) # None
    THEN [err |-> validate_pos(pos), val |-> None]
    ELSE [err |-> None,
          val |-> [id |-> id, partOfSpeech |-> pos, ili |-> ili,
                   definitions |-> definitions, examples |-> examples,
                   relations |-> <<>>]]

make_synset(id, pos, ili, definitions, examples) ==
    IF validate_pos(pos) # None
    THEN [err |-> validate_pos(pos), val |-> None]
    ELSE [err |-> None,
          val |-> [id |-> id, partOfSpeech |-> pos,
                   ili |-> IF Truthy(ili) THEN ili ELSE "",
                   definitions |-> definitions, examples |-> examples,
                   relations |-> <<>>]]

-----------------------------------------------------------------------------
(* The document and the outcome of an operation *)

Doc == [entries |-> entries, synsets |-> synsets, heap |-> heap,
        entry_by_id |-> entry_by_id, synset_by_id |-> synset_by_id,
        entries_by_lemma |-> entries_by_lemma, sense_by_id |-> sense_by_id,
        next |-> next, lexicon |-> lexicon]

Return(d, ret) == [doc |-> d, err |-> None, ret |-> ret, warn |-> FALSE]

Raise(d, err) == [doc |-> d, err |-> err, ret |-> NoRef, warn |-> FALSE]

\* The reference of a new sense: one no live object has.
NewSenseRef(d) ==
    LET n == CHOOSE k \in 1..Cardinality(DOMAIN d.heap) + 1 :
                /\ (0 - k) \notin DOMAIN d.heap
                /\ \A j \in 1..k - 1 : (0 - j) \in DOMAIN d.heap
    IN 0 - n

\* uuid.uuid4().hex[:8]
uuid4(d) == ToString(d.next)

_generate_id(d, prefix, suffix) ==
    <<d.lexicon.id, prefix, uuid4(d)>>
        \o (IF Truthy(suffix) THEN <<suffix>> ELSE <<>>)

_rebuild_indexes(d) ==
    LET lastE(id) == CHOOSE i \in DOMAIN d.entries :
                        /\ d.heap[d.entries[i]].id = id
                        /\ \A j \in DOMAIN d.entries :
                              d.heap[d.entries[j]].id = id => j <= i
        lastY(id) == CHOOSE i \in DOMAIN d.synsets :
                        /\ d.heap[d.synsets[i]].id = id
                        /\ \A j \in DOMAIN d.synsets :
                              d.heap[d.synsets[j]].id = id => j <= i
        pos == {<<i, k>> \in (DOMAIN d.entries) \X (1..Cardinality(DOMAIN d.heap)) :
                    k \in DOMAIN d.heap[d.entries[i]].senses}
        sref(p) == d.heap[d.entries[p[1]]].senses[p[2]]
        lastS(id) == CHOOSE p \in pos :
                        /\ d.heap[sref(p)].id = id
                        /\ \A q \in pos : d.heap[sref(q)].id = id =>
                              \/ q[1] < p[1]
                              \/ q[1] = p[1] /\ q[2] <= p[2]
    IN [d EXCEPT
          !.entry_by_id =
              [id \in {d.heap[e].id : e \in Range(d.entries)} |->
                  d.entries[lastE(id)]],
          !.synset_by_id =
              [id \in {d.heap[s].id : s \in Range(d.synsets)} |->
                  d.synsets[lastY(id)]],
          !.entries_by_lemma =
              [f \in {d.heap[e].lemma.writtenForm : e \in Range(d.entries)} |->
                  SelectSeq(d.entries,
                            LAMBDA e : d.heap[e].lemma.writtenForm = f)],
          !.sense_by_id =
              [id \in {d.heap[sref(p)].id : p \in pos} |-> sref(lastS(id))]]

find_entries(d, lemma, pos) ==
    LET found == Get(d.entries_by_lemma, lemma, <<>>)
    IN IF pos # None
       THEN SelectSeq(found, LAMBDA e : d.heap[e].lemma.partOfSpeech = pos)
       ELSE found

\* lemma.replace(' ', '_'): no surface form of Forms has a space.
safe_lemma(lemma) == lemma

create_entry(d, lemma, pos, entry_id) ==
    LET id == IF entry_id = NoId
              THEN _generate_id(d, safe_lemma(lemma), pos)
              ELSE entry_id
        lm == make_lemma(lemma, pos)
        ref == d.next
    IN IF lm.err # None
       THEN Raise(d, lm.err)
       ELSE Return(
              [d EXCEPT
                 !.heap = Put(d.heap, ref, make_lexical_entry(id, lm.val)),
                 !.next = d.next + 1,
                 !.entries = Append(d.entries, ref),
                 !.entry_by_id = Put(d.entry_by_id, id, ref),
                 !.entries_by_lemma =
                     Put(d.entries_by_lemma, lemma,
                         Append(Get(d.entries_by_lemma, lemma, <<>>), ref))],
              ref)

\* add_word_to_synset without the test for a sense the entry already has.
add_word_to_synset_again(d, synset_id, lemma, pos) ==
    IF synset_id \notin DOMAIN d.synset_by_id
    THEN Raise(d, "KeyError")
    ELSE
      LET synset == d.heap[d.synset_by_id[synset_id]]
          p == IF Truthy(pos) THEN pos ELSE synset.partOfSpeech
          existing == find_entries(d, lemma, p)
          got == IF existing # <<>>
                 THEN Return(d, existing[1])
                 ELSE create_entry(d, lemma, p, NoId)
      IN IF got.err # None
         THEN got
         ELSE
           LET d1 == got.doc
               entry == got.ret
               senses == d1.heap[entry].senses
               sense_id == d1.heap[entry].id \o synset_id
               sref == NewSenseRef(d1)
               withSense == Put(d1.heap, sref, make_sense(sense_id, synset_id))
           IN Return(
                [d1 EXCEPT
                   !.heap = [withSense EXCEPT
                               ![entry].senses = Append(senses, sref)],
                   !.sense_by_id = Put(d1.sense_by_id, sense_id, sref)],
                entry)

add_word_to_synset(d, synset_id, lemma, pos) ==
    IF synset_id \notin DOMAIN d.synset_by_id
    THEN Raise(d, "KeyError")
    ELSE
      LET synset == d.heap[d.synset_by_id[synset_id]]
          p == IF Truthy(pos) THEN pos ELSE synset.partOfSpeech
          existing == find_entries(d, lemma, p)
          got == IF existing # <<>>
                 THEN Return(d, existing[1])
                 ELSE create_entry(d, lemma, p, NoId)
      IN IF got.err # None
         THEN got
         ELSE
           LET d1 == got.doc
               entry == got.ret
               senses == d1.heap[entry].senses
               has_sense == \E i \in DOMAIN senses :
                               d1.heap[senses[i]].synset = synset_id
               sense_id == d1.heap[entry].id \o synset_id
               sref == NewSenseRef(d1)
               withSense == Put(d1.heap, sref, make_sense(sense_id, synset_id))
           IN IF has_sense
              THEN Return(d1, entry)
              ELSE Return(
                     [d1 EXCEPT
                        !.heap = [withSense EXCEPT
                                    ![entry].senses = Append(senses, sref)],
                        !.sense_by_id = Put(d1.sense_by_id, sense_id, sref)],
                     entry)

\* for word in words: self.add_word_to_synset(synset_id, word, pos)
RECURSIVE add_words(_, _, _, _)
add_words(d, synset_id, words, pos) ==
    IF words = <<>>
    THEN Return(d, NoRef)
    ELSE LET r == add_word_to_synset(d, synset_id, Head(words), pos)
         IN IF r.err # None
            THEN r
            ELSE add_words(r.doc, synset_id, Tail(words), pos)

create_synset(d, pos, definition, words, ili, synset_id) ==
    LET id == IF synset_id = NoId
              THEN _generate_id(d, "synset", pos)
              ELSE synset_id
        defs == IF Truthy(definition) THEN <<make_definition(definition)>>
                ELSE <<>>
        made == make_synset(id, pos, ili, defs, <<>>)
        ref == d.next
        d1 == [d EXCEPT
                 !.heap = Put(d.heap, ref, made.val),
                 !.next = d.next + 1,
                 !.synsets = Append(d.synsets, ref),
                 !.synset_by_id = Put(d.synset_by_id, id, ref)]
        added == add_words(d1, id, words, pos)
    IN IF made.err # None
       THEN Raise(d, made.err)
       ELSE IF added.err # None
            THEN added
            ELSE Return(added.doc, ref)

\* A removal of the synset alone: the senses that target it stay.
remove_synset_only(d, synset_id) ==
    IF synset_id \notin DOMAIN d.synset_by_id
    THEN Raise(d, "KeyError")
    ELSE Return(
           [d EXCEPT
              !.synsets = SelectSeq(d.synsets,
                                    LAMBDA s : d.heap[s].id # synset_id),
              !.synset_by_id = Pop(d.synset_by_id, {synset_id})],
           NoRef)

\* A removal that strips every sense of an entry that has a sense to the
\* synset.
remove_synset_with_members(d, synset_id) ==
    IF synset_id \notin DOMAIN d.synset_by_id
    THEN Raise(d, "KeyError")
    ELSE
      LET inList == Range(d.entries)
          member(e) == \E s \in Range(d.heap[e].senses) :
                          d.heap[s].synset = synset_id
          stripped == UNION {Range(d.heap[e].senses) :
                                e \in {x \in inList : member(x)}}
          heap1 == [r \in DOMAIN d.heap |->
                      IF r \in inList /\ member(r)
                      THEN [d.heap[r] EXCEPT !.senses = <<>>]
                      ELSE d.heap[r]]
          has_senses(e) == heap1[e].senses # <<>>
          entries_to_remove == {e \in inList : ~has_senses(e)}
          gone(f) == {heap1[e].id : e \in {x \in entries_to_remove :
                                              heap1[x].lemma.writtenForm = f}}
      IN Return(
           [d EXCEPT
              !.synsets = SelectSeq(d.synsets,
                                    LAMBDA s : d.heap[s].id # synset_id),
              !.synset_by_id = Pop(d.synset_by_id, {synset_id}),
              !.heap = heap1,
              !.sense_by_id = Pop(d.sense_by_id,
                                  {d.heap[s].id : s \in stripped}),
              !.entry_by_id = Pop(d.entry_by_id,
                                  {heap1[e].id : e \in entries_to_remove}),
              !.entries_by_lemma =
                  [f \in DOMAIN d.entries_by_lemma |->
                      SelectSeq(d.entries_by_lemma[f],
                                LAMBDA e : heap1[e].id \notin gone(f))],
              !.entries = SelectSeq(d.entries, has_senses)],
           NoRef)

\* A removal that also drops the relations whose target is the synset.
remove_synset_unlinking(d, synset_id) ==
    IF synset_id \notin DOMAIN d.synset_by_id
    THEN Raise(d, "KeyError")
    ELSE
      LET inList == Range(d.entries)
          keeps(s) == d.heap[s].synset # synset_id
          stripped == {s \in UNION {Range(d.heap[e].senses) : e \in inList} :
                          ~keeps(s)}
          heap1 == [r \in DOMAIN d.heap |->
                      IF r \in inList
                      THEN [d.heap[r] EXCEPT
                              !.senses = SelectSeq(d.heap[r].senses, keeps)]
                      ELSE [d.heap[r] EXCEPT
                              !.relations =
                                  SelectSeq(d.heap[r].relations,
                                            LAMBDA x : x.target # synset_id)]]
          has_senses(e) == heap1[e].senses # <<>>
          entries_to_remove == {e \in inList : ~has_senses(e)}
          gone(f) == {heap1[e].id : e \in {x \in entries_to_remove :
                                              heap1[x].lemma.writtenForm = f}}
      IN Return(
           [d EXCEPT
              !.synsets = SelectSeq(d.synsets,
                                    LAMBDA s : d.heap[s].id # synset_id),
              !.synset_by_id = Pop(d.synset_by_id, {synset_id}),
              !.heap = heap1,
              !.sense_by_id = Pop(d.sense_by_id,
                                  {d.heap[s].id : s \in stripped}),
              !.entry_by_id = Pop(d.entry_by_id,
                                  {heap1[e].id : e \in entries_to_remove}),
              !.entries_by_lemma =
                  [f \in DOMAIN d.entries_by_lemma |->
                      SelectSeq(d.entries_by_lemma[f],
                                LAMBDA e : heap1[e].id \notin gone(f))],
              !.entries = SelectSeq(d.entries, has_senses)],
           NoRef)

remove_synset(d, synset_id) ==
    IF synset_id \notin DOMAIN d.synset_by_id
    THEN Raise(d, "KeyError")
    ELSE
      LET inList == Range(d.entries)
          keeps(s) == d.heap[s].synset # synset_id
          stripped == {s \in UNION {Range(d.heap[e].senses) : e \in inList} :
                          ~keeps(s)}
          heap1 == [r \in DOMAIN d.heap |->
                      IF r \in inList
                      THEN [d.heap[r] EXCEPT
                              !.senses = SelectSeq(d.heap[r].senses, keeps)]
                      ELSE d.heap[r]]
          has_senses(e) == heap1[e].senses # <<>>
          entries_to_remove == {e \in inList : ~has_senses(e)}
          gone(f) == {heap1[e].id : e \in {x \in entries_to_remove :
                                              heap1[x].lemma.writtenForm = f}}
      IN Return(
           [d EXCEPT
              !.synsets = SelectSeq(d.synsets,
                                    LAMBDA s : d.heap[s].id # synset_id),
              !.synset_by_id = Pop(d.synset_by_id, {synset_id}),
              !.heap = heap1,
              !.sense_by_id = Pop(d.sense_by_id,
                                  {d.heap[s].id : s \in stripped}),
              !.entry_by_id = Pop(d.entry_by_id,
                                  {heap1[e].id : e \in entries_to_remove}),
              !.entries_by_lemma =
                  [f \in DOMAIN d.entries_by_lemma |->
                      SelectSeq(d.entries_by_lemma[f],
                                LAMBDA e : heap1[e].id \notin gone(f))],
              !.entries = SelectSeq(d.entries, has_senses)],
           NoRef)

\* A removal that hands back the surviving entries in reverse order.
remove_entry_reversing(d, entry_id) ==
    IF entry_id \notin DOMAIN d.entry_by_id
    THEN Raise(d, "KeyError")
    ELSE
      LET entry == d.heap[d.entry_by_id[entry_id]]
          lemma == entry.lemma.writtenForm
          other(e) == d.heap[e].id # entry_id
          left == SelectSeq(d.entries, other)
      IN Return(
           [d EXCEPT
              !.sense_by_id = Pop(d.sense_by_id,
                                  {d.heap[s].id : s \in Range(entry.senses)}),
              !.entries = [i \in 1..Len(left) |-> left[Len(left) + 1 - i]],
              !.entry_by_id = Pop(d.entry_by_id, {entry_id}),
              !.entries_by_lemma =
                  IF lemma \in DOMAIN d.entries_by_lemma
                  THEN [d.entries_by_lemma EXCEPT
                          ![lemma] = SelectSeq(d.entries_by_lemma[lemma], other)]
                  ELSE d.entries_by_lemma],
           NoRef)

\* A removal of the entry from the indexes alone: it stays in the entry list.
remove_entry_from_indexes(d, entry_id) ==
    IF entry_id \notin DOMAIN d.entry_by_id
    THEN Raise(d, "KeyError")
    ELSE
      LET entry == d.heap[d.entry_by_id[entry_id]]
          lemma == entry.lemma.writtenForm
          other(e) == d.heap[e].id # entry_id
      IN Return(
           [d EXCEPT
              !.sense_by_id = Pop(d.sense_by_id,
                                  {d.heap[s].id : s \in Range(entry.senses)}),
              !.entry_by_id = Pop(d.entry_by_id, {entry_id}),
              !.entries_by_lemma =
                  IF lemma \in DOMAIN d.entries_by_lemma
                  THEN [d.entries_by_lemma EXCEPT
                          ![lemma] = SelectSeq(d.entries_by_lemma[lemma], other)]
                  ELSE d.entries_by_lemma],
           NoRef)

\* A removal of the entry that leaves its senses in the sense index.
remove_entry_keeping_senses(d, entry_id) ==
    IF entry_id \notin DOMAIN d.entry_by_id
    THEN Raise(d, "KeyError")
    ELSE
      LET entry == d.heap[d.entry_by_id[entry_id]]
          lemma == entry.lemma.writtenForm
          other(e) == d.heap[e].id # entry_id
      IN Return(
           [d EXCEPT
              !.entries = SelectSeq(d.entries, other),
              !.entry_by_id = Pop(d.entry_by_id, {entry_id}),
              !.entries_by_lemma =
                  IF lemma \in DOMAIN d.entries_by_lemma
                  THEN [d.entries_by_lemma EXCEPT
                          ![lemma] = SelectSeq(d.entries_by_lemma[lemma], other)]
                  ELSE d.entries_by_lemma],
           NoRef)

remove_entry(d, entry_id) ==
    IF entry_id \notin DOMAIN d.entry_by_id
    THEN Raise(d, "KeyError")
    ELSE
      LET entry == d.heap[d.entry_by_id[entry_id]]
          lemma == entry.lemma.writtenForm
          other(e) == d.heap[e].id # entry_id
      IN Return(
           [d EXCEPT
              !.sense_by_id = Pop(d.sense_by_id,
                                  {d.heap[s].id : s \in Range(entry.senses)}),
              !.entries = SelectSeq(d.entries, other),
              !.entry_by_id = Pop(d.entry_by_id, {entry_id}),
              !.entries_by_lemma =
                  IF lemma \in DOMAIN d.entries_by_lemma
                  THEN [d.entries_by_lemma EXCEPT
                          ![lemma] = SelectSeq(d.entries_by_lemma[lemma], other)]
                  ELSE d.entries_by_lemma],
           NoRef)

\* modify_synset whose additional definitions replace the definitions.
modify_synset_replacing(d, synset_id, definition, add_definitions, add_examples, ili) ==
    IF synset_id \notin DOMAIN d.synset_by_id
    THEN Raise(d, "KeyError")
    ELSE
      LET ref == d.synset_by_id[synset_id]
          synset == d.heap[ref]
          replaced == IF definition # None
                      THEN <<make_definition(definition)>>
                      ELSE synset.definitions
          definitions == IF add_definitions # <<>>
                         THEN [i \in DOMAIN add_definitions |->
                                  make_definition(add_definitions[i])]
                         ELSE replaced
          examples == IF add_examples # <<>>
                      THEN synset.examples \o [i \in DOMAIN add_examples |->
                                                  make_example(add_examples[i])]
                      ELSE synset.examples
      IN Return(
           [d EXCEPT
              !.heap = [d.heap EXCEPT
                          ![ref].definitions = definitions,
                          ![ref].examples = examples,
                          ![ref].ili = IF ili # None THEN ili ELSE synset.ili]],
           ref)

modify_synset(d, synset_id, definition, add_definitions, add_examples, ili) ==
    IF synset_id \notin DOMAIN d.synset_by_id
    THEN Raise(d, "KeyError")
    ELSE
      LET ref == d.synset_by_id[synset_id]
          synset == d.heap[ref]
          replaced == IF definition # None
                      THEN <<make_definition(definition)>>
                      ELSE synset.definitions
          definitions == IF add_definitions # <<>>
                         THEN replaced \o [i \in DOMAIN add_definitions |->
                                          make_definition(add_definitions[i])]
                         ELSE replaced
          examples == IF add_examples # <<>>
                      THEN synset.examples \o [i \in DOMAIN add_examples |->
                                            make_example(add_examples[i])]
                      ELSE synset.examples
      IN Return(
           [d EXCEPT
              !.heap = [d.heap EXCEPT
                          ![ref].definitions = definitions,
                          ![ref].examples = examples,
                          ![ref].ili = IF ili # None THEN ili ELSE synset.ili]],
           ref)

\* add_synset_relation that returns quietly when the source is absent.
add_synset_relation_lenient(d, source_id, target_id, rel_type, validate) ==
    IF source_id \notin DOMAIN d.synset_by_id
    THEN Return(d, NoRef)
    ELSE
      LET ref == d.synset_by_id[source_id]
          made == make_relation(target_id, rel_type, validate, "synset")
      IN [Return([d EXCEPT
                    !.heap = [d.heap EXCEPT
                                ![ref].relations = Append(@, made.val)]],
                 NoRef)
            EXCEPT !.warn = made.warn]

add_synset_relation(d, source_id, target_id, rel_type, validate) ==
    IF source_id \notin DOMAIN d.synset_by_id
    THEN Raise(d, "KeyError")
    ELSE
      LET ref == d.synset_by_id[source_id]
          made == make_relation(target_id, rel_type, validate, "synset")
      IN [Return([d EXCEPT
                    !.heap = [d.heap EXCEPT
                                ![ref].relations = Append(@, made.val)]],
                 NoRef)
            EXCEPT !.warn = made.warn]

\* add_sense_relation that rejects a relation type it would warn about.
add_sense_relation_strict(d, source_sense_id, target_id, rel_type, validate) ==
    IF source_sense_id \notin DOMAIN d.sense_by_id
    THEN Raise(d, "KeyError")
    ELSE
      LET ref == d.sense_by_id[source_sense_id]
          made == make_relation(target_id, rel_type, validate, "sense")
      IN IF made.warn
         THEN Raise(d, "ValueError")
         ELSE Return([d EXCEPT
                        !.heap = [d.heap EXCEPT
                                    ![ref].relations = Append(@, made.val)]],
                     NoRef)

add_sense_relation(d, source_sense_id, target_id, rel_type, validate) ==
    IF source_sense_id \notin DOMAIN d.sense_by_id
    THEN Raise(d, "KeyError")
    ELSE
      LET ref == d.sense_by_id[source_sense_id]
          made == make_relation(target_id, rel_type, validate, "sense")
      IN [Return([d EXCEPT
                    !.heap = [d.heap EXCEPT
                                ![ref].relations = Append(@, made.val)]],
                 NoRef)
            EXCEPT !.warn = made.warn]

\* The metadata operations: self._lexicon[key] = value
set_version(d, version) ==
    Return([d EXCEPT !.lexicon = Put(@, "version", version)], NoRef)

set_id(d, lexicon_id) ==
    Return([d EXCEPT !.lexicon = Put(@, "id", lexicon_id)], NoRef)

set_label(d, label) ==
    Return([d EXCEPT !.lexicon = Put(@, "label", label)], NoRef)

set_email(d, email) ==
    Return([d EXCEPT !.lexicon = Put(@, "email", email)], NoRef)

set_license(d, license) ==
    Return([d EXCEPT !.lexicon = Put(@, "license", license)], NoRef)

set_url(d, url) ==
    Return([d EXCEPT !.lexicon = Put(@, "url", url)], NoRef)

set_citation(d, citation) ==
    Return([d EXCEPT !.lexicon = Put(@, "citation", citation)], NoRef)

\* An update that writes every argument, None included.
update_metadata_all(d, version, label, email, license, url, citation) ==
    Return([d EXCEPT !.lexicon =
                Put(Put(Put(Put(Put(Put(@, "version", version),
                    "label", label), "email", email), "license", license),
                    "url", url), "citation", citation)], NoRef)

\* if <argument> is not None: self._lexicon[<key>] = <argument>
update_metadata(d, version, label, email, license, url, citation) ==
    LET l1 == IF version # None THEN Put(d.lexicon, "version", version)
                                ELSE d.lexicon
        l2 == IF label # None THEN Put(l1, "label", label) ELSE l1
        l3 == IF email # None THEN Put(l2, "email", email) ELSE l2
        l4 == IF license # None THEN Put(l3, "license", license) ELSE l3
        l5 == IF url # None THEN Put(l4, "url", url) ELSE l4
        l6 == IF citation # None THEN Put(l5, "citation", citation) ELSE l5
    IN Return([d EXCEPT !.lexicon = l6], NoRef)

\* The bulk loader's sense number: n = 0; if entry_rank is not None and
\* (index is not None or entry_rank != i): n = entry_rank
sense_n(index, entry_rank, i) ==
    IF entry_rank # NoRank /\ (index # None \/ entry_rank # i)
    THEN entry_rank
    ELSE 0

\* value or '' on a column read from the database (NULL is None)
or_empty(value) == IF Truthy(value) THEN value ELSE ""

\* _build_form without its pronunciations and tags
_build_form(written_form, form_id, script, is_lemma, pos) ==
    IF is_lemma
    THEN [writtenForm |-> written_form, partOfSpeech |-> pos,
          script |-> or_empty(script)]
    ELSE [writtenForm |-> written_form, id |-> or_empty(form_id),
          script |-> or_empty(script)]

\* ORDER BY f.rank on the form rows of one entry: the sequences of all the
\* rows in which no row comes before a row of lower rank.
ordered_by_rank(rows) ==
    {q \in [1..Cardinality(rows) -> rows] :
        /\ \A i, j \in DOMAIN q : q[i] = q[j] => i = j
        /\ \A i, j \in DOMAIN q : i < j => q[i].rank <= q[j].rank}

\* An assembly that takes the last form row for the lemma.
entry_of_forms_last(raw_forms, pos) ==
    IF raw_forms # <<>>
    THEN [lemma |-> _build_form(raw_forms[Len(raw_forms)].form,
                                raw_forms[Len(raw_forms)].id,
                                raw_forms[Len(raw_forms)].script, TRUE, pos),
          forms |-> [i \in 1..Len(raw_forms) - 1 |->
                        _build_form(raw_forms[i].form, raw_forms[i].id,
                                    raw_forms[i].script, FALSE, None)]]
    ELSE [lemma |-> [writtenForm |-> "", partOfSpeech |-> pos],
          forms |-> <<>>]

\* An assembly that keeps the lemma at the head of the forms as well.
entry_of_forms_all(raw_forms, pos) ==
    IF raw_forms # <<>>
    THEN [lemma |-> _build_form(raw_forms[1].form, raw_forms[1].id,
                                raw_forms[1].script, TRUE, pos),
          forms |-> [i \in 1..Len(raw_forms) |->
                        _build_form(raw_forms[i].form, raw_forms[i].id,
                                    raw_forms[i].script, FALSE, None)]]
    ELSE [lemma |-> [writtenForm |-> "", partOfSpeech |-> pos],
          forms |-> <<>>]

\* The lemma and the forms of an entry: the first of raw_forms is the
\* lemma, the rest are the forms; an entry without form rows has an empty
\* lemma.
entry_of_forms(raw_forms, pos) ==
    IF raw_forms # <<>>
    THEN [lemma |-> _build_form(raw_forms[1].form, raw_forms[1].id,
                                raw_forms[1].script, TRUE, pos),
          forms |-> [i \in 1..Len(raw_forms) - 1 |->
                        _build_form(raw_forms[i + 1].form, raw_forms[i + 1].id,
                                    raw_forms[i + 1].script, FALSE, None)]]
    ELSE [lemma |-> [writtenForm |-> "", partOfSpeech |-> pos],
          forms |-> <<>>]

\* An assembly that takes the identifier the query returned and no
\* account of a proposed definition.
synset_ili_confirmed_only(stored, proposed) ==
    or_empty(IF stored = None THEN "" ELSE stored)

\* The ili of a synset: COALESCE(i.id, '') of the query, 'in' for a synset
\* in proposed_ilis that has no identifier, and ili or '' in ss_dict.
synset_ili(stored, proposed) ==
    LET ili == IF stored = None THEN "" ELSE stored
        marked == IF proposed # None /\ ~Truthy(ili) THEN "in" ELSE ili
    IN  or_empty(marked)

\* The classes an exception is an instance of: its own and its bases, up to
\* Exception (ModuleNotFoundError is an ImportError; the sqlite3 errors
\* OperationalError and IntegrityError are DatabaseErrors).
Ancestors(e) ==
    {e, "Exception"} \cup
    (IF e = "ModuleNotFoundError" THEN {"ImportError"} ELSE {}) \cup
    (IF e \in {"OperationalError", "IntegrityError"}
     THEN {"DatabaseError", "sqlite3.Error"} ELSE {})

\* A dispatcher that falls back on every failure of the bulk reader.
falls_back_always(e) == TRUE

\* except (ImportError, AttributeError, sqlite3.OperationalError)
falls_back(e) ==
    Ancestors(e) \cap {"ImportError", "AttributeError", "OperationalError"} # {}

\* A finally clause that leaves the file.
cleanup_never(exists) == exists

\* finally: if os.path.exists(temp_path): os.remove(temp_path); the value
\* is whether the file exists afterwards.
cleanup(exists) == IF exists THEN FALSE ELSE exists

get_synset(d, synset_id) == Get(d.synset_by_id, synset_id, NoRef)

get_entry(d, entry_id) == Get(d.entry_by_id, entry_id, NoRef)

\* sum(len(e.get('senses', [])) for e in entries)
RECURSIVE num_senses(_, _)
num_senses(d, es) ==
    IF es = <<>> THEN 0
    ELSE Len(d.heap[Head(es)].senses) + num_senses(d, Tail(es))

stats(d) ==
    [synsets |-> Len(d.synsets),
     entries |-> Len(d.entries),
     senses |-> num_senses(d, d.entries)]

-----------------------------------------------------------------------------
(* Object lifetime: an object no list, index or live entry refers to is gone *)

Live(d) ==
    LET roots == Range(d.entries) \cup Range(d.synsets)
                   \cup Range(d.entry_by_id) \cup Range(d.synset_by_id)
                   \cup Range(d.sense_by_id)
                   \cup UNION {Range(d.entries_by_lemma[f]) :
                                  f \in DOMAIN d.entries_by_lemma}
        held == UNION {Range(d.heap[r].senses) :
                          r \in {x \in roots : "senses" \in DOMAIN d.heap[x]}}
    IN roots \cup held

Collect(d) == [d EXCEPT !.heap = [r \in Live(d) |-> d.heap[r]]]


\* What a caller can observe of a document: everything but the uuid source.
View(d) == [entries |-> d.entries, synsets |-> d.synsets, heap |-> d.heap,
            entry_by_id |-> d.entry_by_id, synset_by_id |-> d.synset_by_id,
            entries_by_lemma |-> d.entries_by_lemma,
            sense_by_id |-> d.sense_by_id]

-----------------------------------------------------------------------------
(* The state machine *)

NewLexicon ==
    _rebuild_indexes([entries |-> <<>>, synsets |-> <<>>, heap |-> Empty,
                      entry_by_id |-> Empty, synset_by_id |-> Empty,
                      entries_by_lemma |-> Empty, sense_by_id |-> Empty,
                      next |-> 1,
                      lexicon |-> make_lexicon(LexiconId, LexiconId, "en",
                                               DefaultEmail, DefaultLicense,
                                               "1.0")])

Install(d) ==
    /\ entries' = d.entries
    /\ synsets' = d.synsets
    /\ heap' = d.heap
    /\ entry_by_id' = d.entry_by_id
    /\ synset_by_id' = d.synset_by_id
    /\ entries_by_lemma' = d.entries_by_lemma
    /\ sense_by_id' = d.sense_by_id
    /\ next' = d.next
    /\ lexicon' = d.lexicon

\* The document d is the state.
Holds(d) ==
    /\ entries = d.entries
    /\ synsets = d.synsets
    /\ heap = d.heap
    /\ entry_by_id = d.entry_by_id
    /\ synset_by_id = d.synset_by_id
    /\ entries_by_lemma = d.entries_by_lemma
    /\ sense_by_id = d.sense_by_id
    /\ next = d.next
    /\ lexicon = d.lexicon

NoSnapshot == [taken |-> FALSE]

\* The relations of the records of d, each as <<record, position>>.
Relations(d) ==
    {<<r, i>> \in (DOMAIN d.heap) \X (1..MaxRels + 1) :
        i <= Len(d.heap[r].relations)}

\* The documents the model explores.
Small(d) ==
    /\ d.next <= MaxOrderObjects + 1
    /\ Cardinality(Relations(d)) <= MaxRels
    /\ \A r \in DOMAIN d.heap :
          /\ r \in Range(d.synsets) =>
                /\ Len(d.heap[r].definitions) <= MaxTexts
                /\ Len(d.heap[r].examples) <= MaxTexts

\* One call of an operation: its outcome r becomes the state and the call is
\* recorded.  A call is taken only while the object budget allows it.  The
\* document before a successful create_synset is remembered until the call
\* after that one.  undoes: the call removes the synset the call before it
\* created.  repeats: the call has the name and arguments of the call before
\* it, which returned normally.  args: the arguments of the call that the
\* other fields do not hold (of create_synset: the words and the ili).
Call(name, id, lemma, pos, args, r) ==
    LET undoes == /\ name = "remove_synset"
                  /\ r.err = None
                  /\ op.name = "create_synset"
                  /\ op.err = None
                  /\ id = heap[op.ret].id
        repeats == /\ name = "add_word_to_synset"
                   /\ op.err = None
                   /\ <<name, id, lemma, pos>> = <<op.name, op.id, op.lemma, op.pos>>
    IN /\ Small(r.doc)
       /\ Install(Collect(r.doc))
       /\ UNCHANGED <<entry_row, assembly, loading>>
       /\ op' = [name |-> name, id |-> id, lemma |-> lemma, pos |-> pos,
                 args |-> args, err |-> r.err, ret |-> r.ret, warn |-> r.warn,
                 undoes |-> undoes, repeats |-> repeats]
       /\ before' = IF name = "create_synset" /\ r.err = None
                     THEN [taken |-> TRUE, doc |-> View(Doc),
                           pos |-> pos, words |-> args[1]]
                     ELSE IF undoes THEN before ELSE NoSnapshot

\* No entry is being assembled: the editor was not loaded from a database.
NoRow == [index |-> None, raw_senses |-> <<>>, sense_list |-> <<>>]

\* No rows are being assembled, and no load is in progress.
NoAssembly == [kind |-> "none"]
NoLoading == [pc |-> "idle"]

Init ==
    /\ entry_row = NoRow
    /\ assembly = NoAssembly
    /\ loading = NoLoading
    /\ entries = NewLexicon.entries
    /\ synsets = NewLexicon.synsets
    /\ heap = NewLexicon.heap
    /\ entry_by_id = NewLexicon.entry_by_id
    /\ synset_by_id = NewLexicon.synset_by_id
    /\ entries_by_lemma = NewLexicon.entries_by_lemma
    /\ sense_by_id = NewLexicon.sense_by_id
    /\ next = NewLexicon.next
    /\ lexicon = NewLexicon.lexicon
    /\ op = [name |-> "init", id |-> NoId, lemma |-> None, pos |-> None,
             args |-> <<>>,
             err |-> None, ret |-> NoRef, warn |-> FALSE, undoes |-> FALSE, repeats |-> FALSE]
    /\ before = NoSnapshot

\* Identifiers a call may name: those in use, and one that is not.
SynsetIds == (DOMAIN synset_by_id) \cup {<<"absent">>}
EntryIds == (DOMAIN entry_by_id) \cup {<<"absent">>}

CreateSynset ==
    \E pos \in SynsetPosArgs, words \in WordLists :
        Call("create_synset", NoId, None, pos, <<words, None>>,
             create_synset(Doc, pos, None, words, None, NoId))

CreateEntry ==
    \E w \in EntryArgs :
        Call("create_entry", NoId, w[1], w[2], <<>>,
             create_entry(Doc, w[1], w[2], NoId))

AddWordToSynset ==
    \E id \in SynsetIds, w \in WordArgs :
        Call("add_word_to_synset", id, w[1], w[2], <<>>,
             add_word_to_synset(Doc, id, w[1], w[2]))

RemoveSynset ==
    \E id \in SynsetIds :
        Call("remove_synset", id, None, None, <<>>, remove_synset(Doc, id))

RemoveEntry ==
    \E id \in EntryIds :
        Call("remove_entry", id, None, None, <<>>, remove_entry(Doc, id))

\* The run creates at most MaxObjects entries and synsets.
SomeObjects == next' <= MaxObjects + 1

\* The calls that leave the identifier to _generate_id.
Next ==
    \/ CreateSynset /\ SomeObjects
    \/ CreateEntry /\ SomeObjects
    \/ AddWordToSynset /\ SomeObjects
    \/ RemoveSynset
    \/ RemoveEntry

Spec == Init /\ [][Next]_vars

\* The same calls, and the creations that pass an identifier of the caller's.
CreateSynsetWithId ==
    \E id \in ChosenIds, words \in ChosenWordLists :
        Call("create_synset", id, None, "n", <<words, None>>,
             create_synset(Doc, "n", None, words, None, id))

CreateEntryWithId ==
    \E id \in ChosenIds, w \in ChosenEntryArgs :
        Call("create_entry", id, w[1], w[2], <<>>,
             create_entry(Doc, w[1], w[2], id))

NextIds ==
    \/ CreateSynset /\ SomeObjects
    \/ CreateEntry /\ SomeObjects
    \/ AddWordToSynset /\ SomeObjects
    \/ RemoveSynset
    \/ RemoveEntry
    \/ CreateSynsetWithId /\ SomeObjects
    \/ CreateEntryWithId /\ SomeObjects

SpecIds == Init /\ [][NextIds]_vars

\* The calls on synsets, relations and words.
SenseIds == (DOMAIN sense_by_id) \cup {<<"absent">>}

ModifySynset ==
    \E id \in SynsetIds, a \in ModifyArgs :
        Call("modify_synset", id, None, None, a,
             modify_synset(Doc, id, a[1], a[2], a[3], a[4]))

AddSynsetRelation ==
    \E id \in SynsetIds, target \in SynsetIds, a \in RelArgs :
        Call("add_synset_relation", id, None, None, <<target, a[1], a[2]>>,
             add_synset_relation(Doc, id, target, a[1], a[2]))

AddSenseRelation ==
    \E id \in SenseIds, target \in SenseIds, a \in RelArgs :
        Call("add_sense_relation", id, None, None, <<target, a[1], a[2]>>,
             add_sense_relation(Doc, id, target, a[1], a[2]))

\* create_synset(pos, definition=..., ili=...)
CreateSynsetWithIli ==
    \E ili \in IliArgs :
        Call("create_synset", NoId, None, "n", <<<<>>, ili>>,
             create_synset(Doc, "n", "d1", <<>>, ili, NoId))

\* The run creates at most MaxRelObjects entries and synsets.
FewObjects == next' <= MaxRelObjects + 1

\* and its synsets have at most MaxRelTexts definitions and examples.
FewTexts ==
    \A y \in Range(synsets') :
        /\ Len(heap'[y].definitions) <= MaxRelTexts
        /\ Len(heap'[y].examples) <= MaxRelTexts

\* and the document has at most MaxRelsAll relations.
FewRels == Cardinality(Relations(Doc')) <= MaxRelsAll

NextRel ==
    \/ CreateSynset /\ FewObjects
    \/ AddWordToSynset /\ FewObjects
    \/ RemoveSynset
    \/ RemoveEntry
    \/ ModifySynset /\ FewTexts
    \/ AddSynsetRelation /\ FewRels
    \/ AddSenseRelation /\ FewRels

SpecRel == Init /\ [][NextRel]_vars

\* The calls that add relations, and those that create and remove their
\* sources and targets.
NextLinks ==
    \/ CreateSynset /\ FewObjects
    \/ AddWordToSynset /\ FewObjects
    \/ RemoveSynset
    \/ AddSynsetRelation
    \/ AddSenseRelation

SpecLinks == Init /\ [][NextLinks]_vars

\* The calls that create, modify and remove synsets.
ModifySynsetTexts ==
    \E id \in SynsetIds, a \in ModifyTextArgs :
        Call("modify_synset", id, None, None, a,
             modify_synset(Doc, id, a[1], a[2], a[3], a[4]))

NextMod ==
    \/ CreateSynset /\ FewObjects
    \/ CreateSynsetWithIli /\ FewObjects
    \/ ModifySynsetTexts
    \/ RemoveSynset

SpecMod == Init /\ [][NextMod]_vars

\* The metadata calls, and the creation of the content they must not touch.
SetVersion ==
    \E v \in MetaValues :
        Call("set_version", NoId, None, None, <<v>>, set_version(Doc, v))

SetId ==
    \E v \in MetaValues :
        Call("set_id", NoId, None, None, <<v>>, set_id(Doc, v))

SetLabel ==
    \E v \in MetaValues :
        Call("set_label", NoId, None, None, <<v>>, set_label(Doc, v))

SetEmail ==
    \E v \in MetaValues :
        Call("set_email", NoId, None, None, <<v>>, set_email(Doc, v))

SetLicense ==
    \E v \in MetaValues :
        Call("set_license", NoId, None, None, <<v>>, set_license(Doc, v))

SetUrl ==
    \E v \in MetaValues :
        Call("set_url", NoId, None, None, <<v>>, set_url(Doc, v))

SetCitation ==
    \E v \in MetaValues :
        Call("set_citation", NoId, None, None, <<v>>, set_citation(Doc, v))

UpdateMetadata ==
    \E a \in UpdateArgs :
        Call("update_metadata", NoId, None, None, a,
             update_metadata(Doc, a[1], a[2], a[3], a[4], a[5], a[6]))

NextMeta ==
    \/ CreateSynset /\ FewObjects
    \/ SetVersion
    \/ SetId
    \/ SetLabel
    \/ SetEmail
    \/ SetLicense
    \/ SetUrl
    \/ SetCitation
    \/ UpdateMetadata

SpecMeta == Init /\ [][NextMeta]_vars

\* The bulk loader assembling the senses of one entry: index is
\* entry_index.get(entry_id), raw_senses the entry_rank of each sense row in
\* rowid order, sense_list the 'n' of the senses assembled so far.
Ranks == {NoRank} \cup (0..MaxRank)

RawSenses == UNION {[1..k -> Ranks] : k \in 0..MaxSenses}

InitSenses ==
    /\ entry_row \in {[index |-> x, raw_senses |-> rs, sense_list |-> <<>>] :
                        x \in {None, "dog"}, rs \in RawSenses}
    /\ assembly = NoAssembly
    /\ loading = NoLoading
    /\ entries = <<>>
    /\ synsets = <<>>
    /\ heap = Empty
    /\ entry_by_id = Empty
    /\ synset_by_id = Empty
    /\ entries_by_lemma = Empty
    /\ sense_by_id = Empty
    /\ next = 1
    /\ lexicon = NewLexicon.lexicon
    /\ op = [name |-> "load", id |-> NoId, lemma |-> None, pos |-> None,
             args |-> <<>>, err |-> None, ret |-> NoRef, warn |-> FALSE,
             undoes |-> FALSE, repeats |-> FALSE]
    /\ before = NoSnapshot

\* One turn of the loop over enumerate(raw_senses, 1).
AssembleSense ==
    /\ Len(entry_row.sense_list) < Len(entry_row.raw_senses)
    /\ LET i == Len(entry_row.sense_list) + 1
       IN entry_row' =
            [entry_row EXCEPT
                !.sense_list =
                    Append(@, sense_n(entry_row.index,
                                      entry_row.raw_senses[i], i))]
    /\ UNCHANGED <<entries, synsets, heap, entry_by_id, synset_by_id,
                   entries_by_lemma, sense_by_id, next, lexicon, assembly,
                   loading, op, before>>

NextSenses == AssembleSense

SpecSenses == InitSenses /\ [][NextSenses]_vars

\* The calls that add to and take from the lists, in a run long enough for
\* an entry to have three senses: create_synset(pos='n').
CreateBareSynset ==
    Call("create_synset", NoId, None, "n", <<<<>>, None>>,
         create_synset(Doc, "n", None, <<>>, None, NoId))

NextOrder ==
    \/ CreateBareSynset
    \/ CreateEntry
    \/ AddWordToSynset
    \/ RemoveSynset
    \/ RemoveEntry

SpecOrder == Init /\ [][NextOrder]_vars

\* The calls that link synsets and senses and remove synsets, in a run with
\* three entries and synsets: add_word_to_synset(id, 'dog'),
\* add_synset_relation(id, target, 'hypernym') and
\* add_sense_relation(id, target, 'antonym').
AddDogToSynset ==
    \E id \in SynsetIds :
        Call("add_word_to_synset", id, "dog", None, <<>>,
             add_word_to_synset(Doc, id, "dog", None))

LinkSynsets ==
    \E id \in SynsetIds, target \in SynsetIds :
        Call("add_synset_relation", id, None, None, <<target, "hypernym", TRUE>>,
             add_synset_relation(Doc, id, target, "hypernym", TRUE))

LinkSenses ==
    \E id \in SenseIds, target \in SenseIds :
        Call("add_sense_relation", id, None, None, <<target, "antonym", TRUE>>,
             add_sense_relation(Doc, id, target, "antonym", TRUE))

NextFrame ==
    \/ CreateBareSynset /\ SomeObjects
    \/ AddDogToSynset /\ SomeObjects
    \/ RemoveSynset
    \/ LinkSynsets
    \/ LinkSenses

SpecFrame == Init /\ [][NextFrame]_vars

\* The rows of a lexicon in the database, in rowid order: its entries, its
\* synsets, and its senses as <<entry row, synset row>>.  The identifier of
\* a sense is that of its entry followed by that of its synset, as
\* add_word_to_synset derives it.
EntryRows ==
    <<[id |-> <<"e1">>, form |-> "dog", pos |-> "n"],
      [id |-> <<"e2">>, form |-> "cat", pos |-> "n"]>>

SynsetRows == <<[id |-> <<"s1">>, pos |-> "n"], [id |-> <<"s2">>, pos |-> "n"]>>

SenseRows == <<<<1, 1>>, <<1, 2>>, <<2, 1>>, <<2, 2>>>>

Databases ==
    {[entries |-> SubSeq(EntryRows, 1, ne),
      synsets |-> SubSeq(SynsetRows, 1, ny),
      senses |-> SelectSeq(SenseRows, LAMBDA r : r \in rs)] :
        <<ne, ny, rs>> \in
            {x \in (1..Len(EntryRows)) \X (1..Len(SynsetRows))
                      \X (SUBSET Range(SenseRows)) :
                /\ x[1] + x[2] <= MaxLoaded
                /\ \A r \in x[3] : r[1] <= x[1] /\ r[2] <= x[2]}}

\* The document the bulk loader assembles from the rows of db (steps 4 to
\* 6), with the indexes __init__ builds from it.  A synset has the
\* references 1, 2, ... of its row, an entry those that follow, the sense
\* of row k the reference -k.  'members' of a synset: the identifiers of
\* the senses rows of the synset.
_load_from_database_bulk(db) ==
    LET ny == Len(db.synsets)
        ne == Len(db.entries)
        sense_id(r) == db.entries[r[1]].id \o db.synsets[r[2]].id
        sref(k) == 0 - k
        of_entry(i) == {k \in DOMAIN db.senses : db.senses[k][1] = i}
        of_synset(j) == SelectSeq(db.senses, LAMBDA r : r[2] = j)
        ks == [k \in DOMAIN db.senses |-> k]
        object(r) ==
            IF r < 0
            THEN make_sense(sense_id(db.senses[0 - r]),
                            db.synsets[db.senses[0 - r][2]].id)
            ELSE IF r <= ny
            THEN [id |-> db.synsets[r].id,
                  partOfSpeech |-> db.synsets[r].pos,
                  ili |-> "", definitions |-> <<>>, examples |-> <<>>,
                  relations |-> <<>>,
                  members |-> [m \in DOMAIN of_synset(r) |->
                                  sense_id(of_synset(r)[m])]]
            ELSE [id |-> db.entries[r - ny].id,
                  lemma |-> [writtenForm |-> db.entries[r - ny].form,
                             partOfSpeech |-> db.entries[r - ny].pos],
                  senses |-> LET mine == SelectSeq(ks, LAMBDA k : k \in of_entry(r - ny))
                             IN [m \in DOMAIN mine |-> sref(mine[m])],
                  relations |-> <<>>]
    IN _rebuild_indexes(
         [entries |-> [i \in 1..ne |-> ny + i],
          synsets |-> [j \in 1..ny |-> j],
          heap |-> [r \in {sref(k) : k \in DOMAIN db.senses} \cup (1..ny + ne) |->
                       object(r)],
          entry_by_id |-> Empty, synset_by_id |-> Empty,
          entries_by_lemma |-> Empty, sense_by_id |-> Empty,
          next |-> ny + ne + 1,
          lexicon |-> make_lexicon(LexiconId, LexiconId, "en", DefaultEmail,
                                   DefaultLicense, "1.0")])

\* WordnetEditor(lexicon_specifier) on one of the databases, and the calls
\* that add and remove senses.
InitLoaded ==
    /\ \E db \in Databases : Holds(_load_from_database_bulk(db))
    /\ entry_row = NoRow
    /\ assembly = NoAssembly
    /\ loading = NoLoading
    /\ op = [name |-> "load", id |-> NoId, lemma |-> None, pos |-> None,
             args |-> <<>>, err |-> None, ret |-> NoRef, warn |-> FALSE,
             undoes |-> FALSE, repeats |-> FALSE]
    /\ before = NoSnapshot

NextLoaded ==
    \/ AddWordToSynset
    \/ RemoveEntry
    \/ RemoveSynset

SpecLoaded == InitLoaded /\ [][NextLoaded]_vars

\* _load_from_database(specifier).  What the collaborators do is drawn in
\* the initial state: bulk is how the bulk reader ends, wordnet what
\* wn.Wordnet(specifier).lexicons() gives, export and parse how wn.export
\* and lmf.load end, kept whether wn.export leaves the file of temp_path in
\* place.  temp: the temporary file exists.
BulkOutcomes ==
    {"ok", "ImportError", "ModuleNotFoundError", "AttributeError",
     "OperationalError", "IntegrityError", "ValueError"}

Loads ==
    [pc : {"start"}, bulk : BulkOutcomes,
     wordnet : {"lexicons", "empty", "wn.Error"},
     export : {"ok", "wn.Error"}, kept : BOOLEAN,
     parse : {"ok", "LMFError"},
     temp : {FALSE}, created : {FALSE}, ran_xml : {FALSE},
     result : {None}, err : {None}, by : {None}]

\* The editor is being constructed: it has no document yet.
Constructing ==
    /\ Holds(NewLexicon)
    /\ entry_row = NoRow
    /\ op = [name |-> "load", id |-> NoId, lemma |-> None, pos |-> None,
             args |-> <<>>, err |-> None, ret |-> NoRef, warn |-> FALSE,
             undoes |-> FALSE, repeats |-> FALSE]
    /\ before = NoSnapshot

NoEdit ==
    UNCHANGED <<entries, synsets, heap, entry_by_id, synset_by_id,
                entries_by_lemma, sense_by_id, next, lexicon, entry_row,
                op, before>>

InitLoad ==
    /\ Constructing
    /\ assembly = NoAssembly
    /\ loading \in Loads

\* try: return self._load_from_database_bulk(specifier); except (...)
TryBulk ==
    /\ loading.pc = "start"
    /\ loading' =
         IF loading.bulk = "ok"
         THEN [loading EXCEPT !.pc = "returned", !.result = "bulk"]
         ELSE IF falls_back(loading.bulk)
         THEN [loading EXCEPT !.pc = "xml"]
         ELSE [loading EXCEPT !.pc = "raised", !.err = loading.bulk,
                              !.by = "bulk"]
    /\ UNCHANGED assembly
    /\ NoEdit

\* wordnet = wn.Wordnet(specifier); lexicons = wordnet.lexicons();
\* if not lexicons: raise ValueError
OpenWordnet ==
    /\ loading.pc = "xml"
    /\ loading' =
         IF loading.wordnet = "lexicons"
         THEN [loading EXCEPT !.pc = "tempfile", !.ran_xml = TRUE]
         ELSE [loading EXCEPT
                 !.pc = "raised", !.ran_xml = TRUE, !.by = "xml",
                 !.err = IF loading.wordnet = "empty" THEN "ValueError"
                                                     ELSE loading.wordnet]
    /\ UNCHANGED assembly
    /\ NoEdit

\* with tempfile.NamedTemporaryFile(..., delete=False) as f: temp_path = f.name
CreateTemp ==
    /\ loading.pc = "tempfile"
    /\ loading' = [loading EXCEPT !.pc = "export", !.temp = TRUE,
                                  !.created = TRUE]
    /\ UNCHANGED assembly
    /\ NoEdit

\* wn.export(lexicons, temp_path, version=DEFAULT_LMF_VERSION)
Export ==
    /\ loading.pc = "export"
    /\ loading' =
         IF loading.export = "ok"
         THEN [loading EXCEPT !.pc = "parse", !.temp = loading.kept]
         ELSE [loading EXCEPT !.pc = "finally", !.temp = loading.kept,
                              !.err = loading.export, !.by = "xml"]
    /\ UNCHANGED assembly
    /\ NoEdit

\* resource = lmf.load(temp_path), and the ili fields made strings
Parse ==
    /\ loading.pc = "parse"
    /\ loading' =
         IF loading.parse = "ok"
         THEN [loading EXCEPT !.pc = "finally", !.result = "xml"]
         ELSE [loading EXCEPT !.pc = "finally", !.err = loading.parse,
                              !.by = "xml"]
    /\ UNCHANGED assembly
    /\ NoEdit

\* finally: ...; then the return or the error goes on
Finally ==
    /\ loading.pc = "finally"
    /\ loading' = [loading EXCEPT
                     !.pc = IF loading.err = None THEN "returned" ELSE "raised",
                     !.temp = cleanup(loading.temp)]
    /\ UNCHANGED assembly
    /\ NoEdit

NextLoad ==
    \/ TryBulk
    \/ OpenWordnet
    \/ CreateTemp
    \/ Export
    \/ Parse
    \/ Finally

SpecLoad == InitLoad /\ [][NextLoad]_vars

\* The bulk loader assembling the lemma and the forms of one entry.  The
\* form rows of the entry are drawn in the initial state: written form,
\* identifier, script and rank, the lemma of an entry that has one being
\* the row of rank 0.
FormRows ==
    {[form |-> "dog", id |-> None, script |-> None, rank |-> 0],
     [form |-> "dogs", id |-> "f1", script |-> "Latn", rank |-> 1],
     [form |-> "doggo", id |-> None, script |-> "", rank |-> 2],
     [form |-> "hound", id |-> "f2", script |-> None, rank |-> 1],
     [form |-> "dawg", id |-> "", script |-> None, rank |-> MaxFormRank]}

InitForms ==
    /\ Constructing
    /\ loading = NoLoading
    /\ assembly \in [kind : {"entry"}, stage : {"rows"}, pos : {"n", "v"},
                      forms : SUBSET FormRows, raw_forms : {<<>>},
                      out : {None}]

\* forms_by_entry: the rows of the entry as the query returns them
FetchForms ==
    /\ assembly.kind = "entry"
    /\ assembly.stage = "rows"
    /\ \E q \in ordered_by_rank(assembly.forms) :
          assembly' = [assembly EXCEPT !.stage = "fetched", !.raw_forms = q]
    /\ UNCHANGED loading
    /\ NoEdit

\* Step 4: lemma_dict and other_forms of the entry
AssembleEntry ==
    /\ assembly.kind = "entry"
    /\ assembly.stage = "fetched"
    /\ assembly' = [assembly EXCEPT
                      !.stage = "done",
                      !.out = entry_of_forms(assembly.raw_forms, assembly.pos)]
    /\ UNCHANGED loading
    /\ NoEdit

NextForms ==
    \/ FetchForms
    \/ AssembleEntry

SpecForms == InitForms /\ [][NextForms]_vars

\* The bulk loader assembling one record from one row.  The row is drawn
\* in the initial state; None is a NULL of the database.  The columns the
\* loader passes on as they are and that name or spell the thing itself
\* (the language of the lexicon, the text of a definition, of an example
\* and of a pronunciation, the identifier and the version of a dependency)
\* are drawn with a value.
Stored == {None, "", "x"}

Rows ==
    [table : {"lexicons"}, language : {"en"}, url : Stored,
     citation : Stored, logo : Stored]
    \cup [table : {"lexicon_dependencies"}, id : {"dep"},
          version : {"1.0"}, url : Stored]
    \cup [table : {"forms"}, form : {"dog"}, id : Stored, script : Stored,
          is_lemma : BOOLEAN]
    \cup [table : {"pronunciations"}, value : {"dog"}, variety : Stored,
          notation : Stored, audio : Stored]
    \cup [table : {"definitions"}, definition : {"a dog"}, language : Stored,
          sourceSense : Stored]
    \cup [table : {"examples"}, example : {"the dog"}, language : Stored]
    \cup [table : {"synsets"}, id : {<<"s1">>}, ili : {None, "i1", "i2"},
          proposed : {None, "", "a def"}]

InitRecords ==
    /\ Constructing
    /\ loading = NoLoading
    /\ assembly \in [kind : {"record"}, stage : {"row"}, row : Rows,
                      out : {None}]

\* The row of the table t becomes the record r.
Assembled(t, r) ==
    /\ assembly.kind = "record"
    /\ assembly.stage = "row"
    /\ assembly.row.table = t
    /\ assembly' = [assembly EXCEPT !.stage = "done", !.out = r]
    /\ UNCHANGED loading
    /\ NoEdit

\* Step 5: the lexicon dict
AssembleLexicon ==
    Assembled("lexicons",
              [language |-> assembly.row.language,
               url |-> or_empty(assembly.row.url),
               citation |-> or_empty(assembly.row.citation),
               logo |-> or_empty(assembly.row.logo)])

\* requires.append
AssembleDependency ==
    Assembled("lexicon_dependencies",
              [id |-> assembly.row.id, version |-> assembly.row.version,
               url |-> assembly.row.url])

AssembleForm ==
    Assembled("forms",
              _build_form(assembly.row.form, assembly.row.id,
                          assembly.row.script, assembly.row.is_lemma, "n"))

\* prons of _build_form
AssemblePronunciation ==
    Assembled("pronunciations",
              [text |-> assembly.row.value,
               variety |-> or_empty(assembly.row.variety),
               notation |-> or_empty(assembly.row.notation),
               audio |-> or_empty(assembly.row.audio)])

\* synset_defs
AssembleDefinition ==
    Assembled("definitions",
              [text |-> assembly.row.definition,
               language |-> or_empty(assembly.row.language),
               sourceSense |-> or_empty(assembly.row.sourceSense)])

\* sense_examples and synset_examples
AssembleExample ==
    Assembled("examples",
              [text |-> assembly.row.example,
               language |-> or_empty(assembly.row.language)])

\* ss_dict
AssembleSynset ==
    Assembled("synsets",
              IF assembly.row.proposed # None
              THEN [id |-> assembly.row.id,
                    ili |-> synset_ili(assembly.row.ili,
                                       assembly.row.proposed),
                    ili_definition |-> [text |-> assembly.row.proposed]]
              ELSE [id |-> assembly.row.id,
                    ili |-> synset_ili(assembly.row.ili,
                                       assembly.row.proposed)])

NextRecords ==
    \/ AssembleLexicon
    \/ AssembleDependency
    \/ AssembleForm
    \/ AssemblePronunciation
    \/ AssembleDefinition
    \/ AssembleExample
    \/ AssembleSynset

SpecRecords == InitRecords /\ [][NextRecords]_vars

-----------------------------------------------------------------------------
(* Properties *)

\* The records of the document d: its entries, their senses, its synsets.
EntriesOf(d) == Range(d.entries)
SynsetsOf(d) == Range(d.synsets)
SensesOf(d) == UNION {Range(d.heap[e].senses) : e \in EntriesOf(d)}
Indexed(d) == UNION {Range(d.entries_by_lemma[f]) :
                        f \in DOMAIN d.entries_by_lemma}

Removed == op.name = "remove_synset" /\ op.err = None

\* C1: after remove_synset(X) returns normally, X is neither in the synset
\* list nor a key of the synset index, no entry of the document holds a sense
\* whose target is X, no identifier of a sense the call stripped is a key of
\* the sense index, and no entry with zero senses is in the entry list, in
\* the entry index or in a list of the surface-form index.
C1_RemoveSynsetCascade ==
    [][ Removed' =>
          /\ \A s \in SynsetsOf(Doc') : heap'[s].id # op'.id
          /\ op'.id \notin DOMAIN synset_by_id'
          /\ \A s \in SensesOf(Doc') : heap'[s].synset # op'.id
          /\ \A s \in SensesOf(Doc) :
                heap[s].synset = op'.id => heap[s].id \notin DOMAIN sense_by_id'
          /\ \A e \in EntriesOf(Doc') \cup Range(entry_by_id') \cup Indexed(Doc') :
                heap'[e].senses # <<>> ]_vars

\* C2: when create_synset is called with words none of which is the surface
\* form of an entry of the document D, and the synset it created is removed
\* by the next call, the entry list, the synset list, the records and the
\* four indexes are those of D.
NoSharedForm ==
    \A e \in EntriesOf(before.doc) :
        before.doc.heap[e].lemma.writtenForm \notin Range(before.words)

C2_CreateRemoveRestores ==
    (op.undoes /\ NoSharedForm) => View(Doc) = before.doc

\* C3: when create_synset reuses an entry E of the document (the surface form
\* of one of its words, and its part of speech) that has senses, all of them
\* to other synsets, and the synset it created is removed by the next call, E is still in the entry
\* list and in the entry and surface-form indexes, and the sense list of E is
\* the one it had before the create: the same senses in the same order.
Reused(e) ==
    /\ op.undoes
    /\ e \in EntriesOf(before.doc)
    /\ before.doc.heap[e].senses # <<>>
    /\ \A s \in Range(before.doc.heap[e].senses) :
          before.doc.heap[s].synset # op.id
    /\ \E i \in DOMAIN before.words :
          /\ find_entries(before.doc, before.words[i], before.pos) # <<>>
          /\ find_entries(before.doc, before.words[i], before.pos)[1] = e

C4_AddWordIdempotent ==
    [][ (op'.name = "add_word_to_synset" /\ op'.repeats) =>
           /\ op'.err = None
           /\ op'.ret = op.ret
           /\ View(Doc') = View(Doc) ]_vars

C4_Witness ==
    /\ op.name = "add_word_to_synset"
    /\ op.repeats
    /\ op.ret \in EntriesOf(Doc)

\* C5: with generated identifiers, an identifier is a key of the entry
\* (synset, sense) index exactly when an entry (synset, sense) of the
\* document has it, and the index maps it to that record.
C5_IndexAgreement ==
    /\ DOMAIN entry_by_id = {heap[e].id : e \in EntriesOf(Doc)}
    /\ \A id \in DOMAIN entry_by_id :
          entry_by_id[id] \in EntriesOf(Doc) /\ heap[entry_by_id[id]].id = id
    /\ DOMAIN synset_by_id = {heap[s].id : s \in SynsetsOf(Doc)}
    /\ \A id \in DOMAIN synset_by_id :
          synset_by_id[id] \in SynsetsOf(Doc) /\ heap[synset_by_id[id]].id = id
    /\ DOMAIN sense_by_id = {heap[s].id : s \in SensesOf(Doc)}
    /\ \A id \in DOMAIN sense_by_id :
          sense_by_id[id] \in SensesOf(Doc) /\ heap[sense_by_id[id]].id = id

C5_Witness ==
    /\ Removed
    /\ entry_by_id # Empty
    /\ synset_by_id # Empty
    /\ sense_by_id # Empty

\* C6: find_entries(form) is the sequence of the entries of the document
\* whose lemma has that written form, in the order of the entry list, and
\* find_entries(form, pos) is the subsequence of those whose lemma has that
\* part of speech.
C6_FindEntries ==
    \A form \in Forms :
        /\ find_entries(Doc, form, None) =
              SelectSeq(entries, LAMBDA e : heap[e].lemma.writtenForm = form)
        /\ \A pos \in PARTS_OF_SPEECH :
              find_entries(Doc, form, pos) =
                 SelectSeq(entries,
                           LAMBDA e : /\ heap[e].lemma.writtenForm = form
                                      /\ heap[e].lemma.partOfSpeech = pos)

C6_Witness ==
    /\ op.name = "remove_entry"
    /\ op.err = None
    /\ Len(find_entries(Doc, "dog", None)) = 2
    /\ Len(find_entries(Doc, "dog", "n")) = 1

\* C7: modify_synset, remove_synset, add_synset_relation and
\* add_word_to_synset given a synset identifier that is not a key of the
\* synset index, remove_entry given an entry identifier that is not a key of
\* the entry index, and add_sense_relation given a source sense identifier
\* that is not a key of the sense index, raise KeyError and leave the entry
\* list, the synset list, the records and the four indexes as they were.
AbsentId(o) ==
    \/ /\ o.name \in {"modify_synset", "remove_synset",
                       "add_synset_relation", "add_word_to_synset"}
       /\ o.id \notin DOMAIN synset_by_id
    \/ /\ o.name = "remove_entry"
       /\ o.id \notin DOMAIN entry_by_id
    \/ /\ o.name = "add_sense_relation"
       /\ o.id \notin DOMAIN sense_by_id

C7_NotFoundLeavesUnchanged ==
    [][ AbsentId(op') =>
           /\ op'.err = "KeyError"
           /\ View(Doc') = View(Doc) ]_vars

C7_Witness ==
    /\ op.name = "add_sense_relation"
    /\ op.err = "KeyError"
    /\ sense_by_id # Empty
    /\ \E y \in SynsetsOf(Doc) : heap[y].relations # <<>>

\* C8: the target of every sense of every entry of the document is the
\* identifier of a synset in the synset list.
C8_SenseTargetsResolve ==
    \A s \in SensesOf(Doc) :
        \E y \in SynsetsOf(Doc) : heap[y].id = heap[s].synset

C8_Witness ==
    /\ Removed
    /\ SensesOf(Doc) # {}

\* C9: create_synset, create_entry and add_word_to_synset (on a synset that
\* is present) called with a part of speech outside PARTS_OF_SPEECH raise
\* ValueError and leave the synset list, the entry list, the records and the
\* four indexes as they were.
BadPos(o) ==
    /\ o.pos # None
    /\ o.pos \notin PARTS_OF_SPEECH
    /\ o.name \in {"create_synset", "create_entry", "add_word_to_synset"}

C9_FailedCreateLeavesNoTrace ==
    [][ (BadPos(op') /\ (op'.name = "add_word_to_synset" =>
                            op'.id \in DOMAIN synset_by_id)) =>
           /\ op'.err = "ValueError"
           /\ View(Doc') = View(Doc) ]_vars

C11_IliAlwaysString ==
    [][ /\ \A y \in SynsetsOf(Doc') : heap'[y].ili # None
        /\ (op'.name = "create_synset" /\ op'.err = None /\ op'.args[2] = None)
              => heap'[op'.ret].ili = ""
        /\ (op'.name = "modify_synset" /\ op'.err = None /\ op'.args[4] = None)
              => heap'[op'.ret].ili = heap[op'.ret].ili ]_vars

C11_Witness ==
    /\ op.name = "modify_synset"
    /\ op.err = None
    /\ op.args[4] = None
    /\ \E y \in SynsetsOf(Doc) : heap[y].ili = "i1"
    /\ \E y \in SynsetsOf(Doc) : heap[y].ili = ""

\* C12: a call add_word_to_synset(S, form, pos) that returns normally, with
\* p the part of speech it is given or, when none is given, that of S:
\* when the document has entries with written form form and part of speech
\* p, the call returns one of them and the entry list is as it was;
\* otherwise it appends one new entry, with that lemma, and returns it.  The
\* returned entry then has exactly one sense whose target is S; the
\* identifier of that sense is the identifier of the entry joined to S, and
\* the sense index maps that identifier to that sense.
Matching(form, p) ==
    SelectSeq(entries, LAMBDA e : /\ heap[e].lemma.writtenForm = form
                                  /\ heap[e].lemma.partOfSpeech = p)

C12_AddWordReusesOrCreates ==
    [][ (op'.name = "add_word_to_synset" /\ op'.err = None) =>
          LET S == op'.id
              p == IF Truthy(op'.pos) THEN op'.pos
                   ELSE heap[synset_by_id[S]].partOfSpeech
              e == op'.ret
              toS == {i \in DOMAIN heap'[e].senses :
                         heap'[heap'[e].senses[i]].synset = S}
          IN /\ IF Matching(op'.lemma, p) # <<>>
                THEN /\ e \in Range(Matching(op'.lemma, p))
                     /\ entries' = entries
                ELSE /\ e \notin DOMAIN heap
                     /\ entries' = Append(entries, e)
                     /\ heap'[e].lemma =
                           [writtenForm |-> op'.lemma, partOfSpeech |-> p]
             /\ Cardinality(toS) = 1
             /\ \A i \in toS :
                   /\ heap'[heap'[e].senses[i]].id = heap'[e].id \o S
                   /\ (heap'[e].id \o S) \in DOMAIN sense_by_id'
                   /\ sense_by_id'[heap'[e].id \o S] = heap'[e].senses[i] ]_vars

\* C13: a call create_synset(pos, words=W) that returns normally appends
\* one synset to the synset list and returns it, and get_synset finds it by
\* its identifier; stats() then counts one synset more, as many entries more
\* as W has distinct words for which the document had no entry with that
\* form and part of speech, and as many senses more as W has distinct words.
\* When the document was empty and the next call removes the synset, stats()
\* counts no synset, no entry and no sense.
C13_CreateSynsetStats ==
    [][ /\ (op'.name = "create_synset" /\ op'.id = NoId /\ op'.err = None) =>
              LET W == Range(op'.args[1])
                  y == op'.ret
              IN /\ synsets' = Append(synsets, y)
                 /\ get_synset(Doc', heap'[y].id) = y
                 /\ stats(Doc').synsets = stats(Doc).synsets + 1
                 /\ stats(Doc').entries = stats(Doc).entries +
                       Cardinality({w \in W : Matching(w, op'.pos) = <<>>})
                 /\ stats(Doc').senses = stats(Doc).senses + Cardinality(W)
        /\ (op'.undoes /\ before.doc.entries = <<>> /\ before.doc.synsets = <<>>)
              => stats(Doc') = [synsets |-> 0, entries |-> 0, senses |-> 0]
      ]_vars

\* C14: add_synset_relation on a source synset that is present, and
\* add_sense_relation on a source sense that is present, return normally
\* and append one relation, with the target and the type of the call, at
\* the end of the relation list of the source; no other record, list or
\* index changes.  This is so for every type and either value of validate;
\* a warning is issued exactly when validate is set and the type is outside
\* the vocabulary of the kind of relation.
Source(o) ==
    IF o.name = "add_synset_relation"
    THEN Get(synset_by_id, o.id, NoRef)
    ELSE Get(sense_by_id, o.id, NoRef)

C14_RelationAlwaysAppended ==
    [][ (/\ op'.name \in {"add_synset_relation", "add_sense_relation"}
         /\ Source(op') # NoRef) =>
          /\ op'.err = None
          /\ heap' = [heap EXCEPT
                        ![Source(op')].relations =
                            Append(@, [target |-> op'.args[1],
                                       relType |-> op'.args[2]])]
          /\ <<entries, synsets, entry_by_id, synset_by_id,
                entries_by_lemma, sense_by_id>>' =
             <<entries, synsets, entry_by_id, synset_by_id,
               entries_by_lemma, sense_by_id>>
          /\ op'.warn = (/\ op'.args[3]
                         /\ op'.args[2] \notin
                               (IF op'.name = "add_synset_relation"
                                THEN SYNSET_RELATIONS
                                ELSE SENSE_RELATIONS)) ]_vars

C14_Witness ==
    /\ op.name = "add_sense_relation"
    /\ op.err = None
    /\ op.warn
    /\ Len(heap[sense_by_id[op.id]].relations) = 2

\* C15: after remove_entry(E) returns normally, get_entry(E) finds nothing,
\* no entry of the entry list has the identifier E, find_entries on the
\* written form of the removed entry does not return it, no identifier of a
\* sense of the removed entry is a key of the sense index, the synset list
\* and its synsets are as they were, and the entry list is the one before
\* the call without the entries that have the identifier E, every other
\* entry and its senses being as they were.
C15_RemoveEntry ==
    [][ (op'.name = "remove_entry" /\ op'.err = None) =>
          LET E == entry_by_id[op'.id]
          IN /\ get_entry(Doc', op'.id) = NoRef
             /\ \A e \in EntriesOf(Doc') : heap'[e].id # op'.id
             /\ E \notin Range(find_entries(Doc', heap[E].lemma.writtenForm,
                                             None))
             /\ \A s \in Range(heap[E].senses) :
                   heap[s].id \notin DOMAIN sense_by_id'
             /\ synsets' = synsets
             /\ \A y \in SynsetsOf(Doc) : heap'[y] = heap[y]
             /\ entries' = SelectSeq(entries, LAMBDA e : heap[e].id # op'.id)
             /\ \A e \in EntriesOf(Doc') :
                   /\ heap'[e] = heap[e]
                   /\ \A s \in Range(heap[e].senses) : heap'[s] = heap[s]
      ]_vars

C15_Witness ==
    /\ op.name = "remove_entry"
    /\ op.err = None
    /\ entries # <<>>
    /\ synsets # <<>>
    /\ sense_by_id # Empty

\* C16: modify_synset on a synset that is present returns it, and changes
\* only what it is given: with a replacement definition the definitions
\* become that one definition, otherwise they stay; the additional
\* definitions are then appended in their order; the additional examples
\* are appended to the examples in their order; an ili that is given
\* replaces the ili.  The other fields of the synset, every other record,
\* the entry list, the synset list and the four indexes are as they were.
Texts(ts) == [i \in DOMAIN ts |-> [text |-> ts[i]]]

C16_ModifyOnlySupplied ==
    [][ (op'.name = "modify_synset" /\ op'.id \in DOMAIN synset_by_id) =>
          LET y == synset_by_id[op'.id]
              a == op'.args
          IN /\ op'.err = None
             /\ op'.ret = y
             /\ heap' = [heap EXCEPT
                   ![y].definitions =
                       (IF a[1] # None THEN <<[text |-> a[1]]>> ELSE @)
                           \o Texts(a[2]),
                   ![y].examples = @ \o Texts(a[3]),
                   ![y].ili = IF a[4] # None THEN a[4] ELSE @]
             /\ <<entries, synsets, entry_by_id, synset_by_id,
                   entries_by_lemma, sense_by_id>>' =
                <<entries, synsets, entry_by_id, synset_by_id,
                  entries_by_lemma, sense_by_id>> ]_vars

C16_Witness ==
    /\ op.name = "modify_synset"
    /\ op.err = None
    /\ op.args[2] = <<"d2", "d3">>
    /\ heap[op.ret].definitions = Texts(<<"d1", "d2", "d3">>)
    /\ entries # <<>>

-----------------------------------------------------------------------------
\* The keys update_metadata takes an argument for, in the order of its
\* parameters.
UpdateKeys == <<"version", "label", "email", "license", "url", "citation">>

\* The key a set_* operation writes.
SetKey ==
    [set_version |-> "version", set_id |-> "id", set_label |-> "label",
     set_email |-> "email", set_license |-> "license", set_url |-> "url",
     set_citation |-> "citation"]

\* C18: metadata operations touch only metadata.  A call of update_metadata
\* gives each key whose argument is not None the value of that argument and
\* leaves every other key of the lexicon as it was (an absent key stays
\* absent); a call of set_version, set_id, set_label, set_email,
\* set_license, set_url or set_citation writes its one key and leaves the
\* others; and none of these calls changes the entry list, the synset list,
\* the records they hold, or any of the four indexes.
C18_MetadataOnly ==
    [][ /\ op'.name = "update_metadata" =>
            /\ op'.err = None
            /\ \A i \in DOMAIN UpdateKeys :
                  IF op'.args[i] # None
                  THEN /\ UpdateKeys[i] \in DOMAIN lexicon'
                       /\ lexicon'[UpdateKeys[i]] = op'.args[i]
                  ELSE /\ UpdateKeys[i] \in DOMAIN lexicon'
                            <=> UpdateKeys[i] \in DOMAIN lexicon
                       /\ UpdateKeys[i] \in DOMAIN lexicon =>
                            lexicon'[UpdateKeys[i]] = lexicon[UpdateKeys[i]]
            /\ \A k \in (DOMAIN lexicon \cup DOMAIN lexicon') \ Range(UpdateKeys) :
                  /\ k \in DOMAIN lexicon /\ k \in DOMAIN lexicon'
                  /\ lexicon'[k] = lexicon[k]
            /\ View(Doc') = View(Doc)
        /\ op'.name \in DOMAIN SetKey =>
            /\ op'.err = None
            /\ lexicon' = Put(lexicon, SetKey[op'.name], op'.args[1])
            /\ View(Doc') = View(Doc) ]_vars

\* update_metadata(version, label, email, url, citation), as in
\* test_update_metadata, is called after set_id on a lexicon that has a
\* synset and an entry: the five keys are written, 'license' and 'id' keep
\* their values.
C18_Witness ==
    /\ op.name = "update_metadata"
    /\ op.args = <<"1.1", "l", "e", None, "u", "c">>
    /\ lexicon.version = "1.1"
    /\ lexicon.url = "u"
    /\ lexicon.license = DefaultLicense
    /\ lexicon.id = "m"
    /\ synsets # <<>>
    /\ entries # <<>>
    /\ DOMAIN entries_by_lemma # {}

-----------------------------------------------------------------------------
\* C19: incremental index maintenance refines a full rebuild.  After every
\* call, each of the four maintained indexes equals the index that
\* _rebuild_indexes computes from the entry list and the synset list of the
\* document: the same keys, the same records, and under each surface form
\* the same entries in the same order.
C19_IndexesAreRebuild ==
    /\ entry_by_id = _rebuild_indexes(Doc).entry_by_id
    /\ synset_by_id = _rebuild_indexes(Doc).synset_by_id
    /\ entries_by_lemma = _rebuild_indexes(Doc).entries_by_lemma
    /\ sense_by_id = _rebuild_indexes(Doc).sense_by_id

-----------------------------------------------------------------------------
\* C20: the sense display-order number.  For every sense the bulk loader
\* has assembled, at position i (counted from 1) among the senses of its
\* entry and with stored rank r, the number n of the sense is 0 unless the
\* entry both has an index marker and r differs from i, in which case n
\* equals r.
C20_SenseNumber ==
    \A i \in DOMAIN entry_row.sense_list :
        entry_row.raw_senses[i] # NoRank =>
            entry_row.sense_list[i] =
                IF entry_row.index # None /\ entry_row.raw_senses[i] # i
                THEN entry_row.raw_senses[i]
                ELSE 0

-----------------------------------------------------------------------------
\* The senses of the entries of the document d, each as <<entry, position>>.
SensePlaces(d) ==
    {<<i, k>> \in (DOMAIN d.entries) \X (1..Cardinality(DOMAIN d.heap)) :
        k \in DOMAIN d.heap[d.entries[i]].senses}

\* C28: identifiers stay unique.  After every call, the calls of
\* create_synset and create_entry that pass an identifier already in use
\* included, no two entries of the entry list have the same identifier, no
\* two synsets of the synset list have the same identifier, and no two
\* senses of the document have the same identifier.
C28_IdentifiersUnique ==
    /\ \A i, j \in DOMAIN entries :
          heap[entries[i]].id = heap[entries[j]].id => i = j
    /\ \A i, j \in DOMAIN synsets :
          heap[synsets[i]].id = heap[synsets[j]].id => i = j
    /\ \A p, q \in SensePlaces(Doc) :
          heap[heap[entries[p[1]]].senses[p[2]]].id
             = heap[heap[entries[q[1]]].senses[q[2]]].id => p = q

-----------------------------------------------------------------------------
\* a is the beginning of b.
IsPrefix(a, b) == Len(a) <= Len(b) /\ \A i \in DOMAIN a : a[i] = b[i]

\* b is what is left of a, in the order of a.
IsRest(a, b) == b = SelectSeq(a, LAMBDA x : x \in Range(b))

\* C27: removal preserves order and creation appends.  After remove_synset
\* or remove_entry, the entry list is what is left of the entry list before
\* the call in the same order, likewise the synset list and the sense list
\* of every entry that is still in the document.  After create_synset,
\* create_entry or add_word_to_synset, the synset list and the entry list
\* begin with the lists before the call, and so does the sense list of
\* every entry that was in the document: what is new is at the end.
C27_OrderKept ==
    [][ /\ op'.name \in {"remove_synset", "remove_entry"} =>
              /\ IsRest(entries, entries')
              /\ IsRest(synsets, synsets')
              /\ \A e \in Range(entries') :
                    IsRest(heap[e].senses, heap'[e].senses)
        /\ op'.name \in {"create_synset", "create_entry", "add_word_to_synset"} =>
              /\ IsPrefix(entries, entries')
              /\ IsPrefix(synsets, synsets')
              /\ \A e \in Range(entries) :
                    IsPrefix(heap[e].senses, heap'[e].senses) ]_vars

\* remove_synset has taken the second of three synsets out of the list, and
\* an entry that had a sense for each of them keeps the first and the third
\* of its senses, in that order.
C27_Witness ==
    /\ op.name = "remove_synset"
    /\ op.err = None
    /\ Len(synsets) = 2
    /\ \E e \in Range(entries) :
          /\ Len(heap[e].senses) = 2
          /\ heap[heap[e].senses[1]].synset = heap[synsets[1]].id
          /\ heap[heap[e].senses[2]].synset = heap[synsets[2]].id
          /\ \E k \in synsets[1] + 1..synsets[2] - 1 : op.id[3] = ToString(k)

-----------------------------------------------------------------------------
\* C29: remove_synset(X) changes no other synset.  After a call that
\* returns normally, every synset that is still in the synset list has the
\* record it had, its relation list included, and every sense that is still
\* in an entry of the document has the record it had: relations whose
\* target is X stay where they are.
C29_RemoveSynsetLeavesOthers ==
    [][ (op'.name = "remove_synset" /\ op'.err = None) =>
          /\ \A y \in SynsetsOf(Doc') : heap'[y] = heap[y]
          /\ \A s \in SensesOf(Doc') : heap'[s] = heap[s] ]_vars

\* remove_synset(X) has returned; a synset that is left has a relation whose
\* target is X, and a sense that is left has a relation.
C29_Witness ==
    /\ op.name = "remove_synset"
    /\ op.err = None
    /\ \E y \in SynsetsOf(Doc) :
          \E i \in DOMAIN heap[y].relations :
              heap[y].relations[i].target = op.id
    /\ \E s \in SensesOf(Doc) : heap[s].relations # <<>>

-----------------------------------------------------------------------------
\* C30: member lists follow the senses.  In a document the bulk loader
\* assembled, after every call of add_word_to_synset, remove_entry and
\* remove_synset, the member list of every synset of the document holds
\* exactly the identifiers of the senses of the document whose target is
\* that synset.
C30_MembersFollowSenses ==
    \A y \in SynsetsOf(Doc) :
        Range(heap[y].members) =
            {heap[s].id : s \in {x \in SensesOf(Doc) :
                                    heap[x].synset = heap[y].id}}

-----------------------------------------------------------------------------
\* The call of _load_from_database has ended.
Loaded == loading.pc \in {"returned", "raised"}

\* A schema-incompatibility condition: an ImportError, an AttributeError or
\* a sqlite3.OperationalError.
SchemaIncompatibility(e) ==
    \/ "ImportError" \in Ancestors(e)
    \/ "AttributeError" \in Ancestors(e)
    \/ "OperationalError" \in Ancestors(e)

\* C21: loader dispatch.  When the call has ended: if the bulk reader
\* succeeded, its document is returned and the fallback path did not run; if
\* it failed with a schema-incompatibility condition, that failure is not
\* what the caller gets: the fallback path ran, and a document that is
\* returned is the one the fallback path produced; if it failed in any
\* other way, that failure is raised to the caller and the fallback path
\* did not run.
C21_LoaderDispatch ==
    Loaded =>
        IF loading.bulk = "ok"
        THEN /\ loading.pc = "returned"
             /\ loading.result = "bulk"
             /\ ~loading.ran_xml
        ELSE IF SchemaIncompatibility(loading.bulk)
        THEN /\ loading.ran_xml
             /\ loading.by # "bulk"
             /\ loading.pc = "returned" => loading.result = "xml"
             /\ loading.pc = "raised" => loading.by = "xml"
        ELSE /\ loading.pc = "raised"
             /\ loading.err = loading.bulk
             /\ loading.by = "bulk"
             /\ ~loading.ran_xml

\* The bulk reader failed with sqlite3.OperationalError and the call
\* returned the document of the fallback path.
C21_Witness ==
    /\ loading.pc = "returned"
    /\ loading.bulk = "OperationalError"
    /\ loading.result = "xml"

\* C22: on every exit path of the fallback loader -- the return after a
\* successful export and parse, the error of wn.export, the error of
\* lmf.load -- the temporary file it created does not exist when the call
\* returns or the error propagates.
C22_TempFileGone ==
    (Loaded /\ loading.created) => ~loading.temp

\* wn.export raised, leaving the file in place, and the error has
\* propagated.
C22_Witness ==
    /\ loading.pc = "raised"
    /\ loading.created
    /\ loading.export = "wn.Error"
    /\ loading.kept
    /\ loading.err = "wn.Error"

-----------------------------------------------------------------------------
\* The entry of the form rows has been assembled.
EntryDone == assembly.kind = "entry" /\ assembly.stage = "done"

\* The rank of the form row with the written form f.
RankOf(f) == (CHOOSE r \in assembly.forms : r.form = f).rank

\* C23: for every entry the bulk reader assembles that has at least one form
\* row, the lemma is built from a form row of lowest rank, and the forms of
\* the entry are exactly the remaining form rows, in ascending order of
\* rank.
C23_LemmaIsLowestRank ==
    (EntryDone /\ assembly.forms # {}) =>
        \E r0 \in assembly.forms :
            /\ \A r \in assembly.forms : r0.rank <= r.rank
            /\ assembly.out.lemma.writtenForm = r0.form
            /\ Len(assembly.out.forms) = Cardinality(assembly.forms) - 1
            /\ {assembly.out.forms[i].writtenForm :
                    i \in DOMAIN assembly.out.forms}
                 = {r.form : r \in assembly.forms \ {r0}}
            /\ \A i, j \in DOMAIN assembly.out.forms :
                  i < j => RankOf(assembly.out.forms[i].writtenForm)
                             <= RankOf(assembly.out.forms[j].writtenForm)

\* An entry with the lemma 'dog' and three other forms, two of them of the
\* same rank, has been assembled.
C23_Witness ==
    /\ EntryDone
    /\ Cardinality(assembly.forms) = 4
    /\ assembly.out.lemma.writtenForm = "dog"
    /\ Len(assembly.out.forms) = 3
    /\ assembly.out.forms[1].writtenForm = "hound"
    /\ assembly.out.forms[2].writtenForm = "dogs"

\* C24 as stated: the first of the forms of an assembled entry that has
\* forms equals the lemma of the entry in written form and part of speech.
C24_FirstFormIsLemma ==
    (EntryDone /\ assembly.out.forms # <<>>) =>
        /\ assembly.out.forms[1].writtenForm = assembly.out.lemma.writtenForm
        /\ "partOfSpeech" \in DOMAIN assembly.out.forms[1]
        /\ assembly.out.forms[1].partOfSpeech = assembly.out.lemma.partOfSpeech

\* C24, amended: the lemma of an assembled entry has the written form of the
\* first form row the query returned and the part of speech of the entry;
\* the forms of the entry are built from the rows after the first, in their
\* order, and have no part of speech, so that the first of the forms, when
\* there is one, is the second form row.  An entry without form rows has
\* the empty written form and no forms.
C24_LemmaIsFirstRow ==
    EntryDone =>
        /\ assembly.out.lemma.partOfSpeech = assembly.pos
        /\ assembly.out.lemma.writtenForm =
              IF assembly.raw_forms = <<>> THEN ""
              ELSE assembly.raw_forms[1].form
        /\ Len(assembly.out.forms) =
              IF assembly.raw_forms = <<>> THEN 0
              ELSE Len(assembly.raw_forms) - 1
        /\ \A i \in DOMAIN assembly.out.forms :
              /\ assembly.out.forms[i].writtenForm
                    = assembly.raw_forms[i + 1].form
              /\ "partOfSpeech" \notin DOMAIN assembly.out.forms[i]

\* An entry with two form rows has been assembled: the lemma is 'dog', the
\* first of its forms is 'dogs'.
C24_Witness ==
    /\ EntryDone
    /\ Len(assembly.raw_forms) = 2
    /\ assembly.out.lemma.writtenForm = "dog"
    /\ assembly.out.forms[1].writtenForm = "dogs"

-----------------------------------------------------------------------------
\* A record of the table t has been assembled.
RecordDone(t) ==
    /\ assembly.kind = "record"
    /\ assembly.stage = "done"
    /\ assembly.row.table = t

\* The textual fields of an assembled record whose column may hold NULL.
TextFields ==
    {"language", "script", "sourceSense", "url", "citation", "logo", "id",
     "variety", "notation", "audio"}

\* C25: every nullable textual field of every record the bulk reader
\* assembles (lexicon, dependency, form, pronunciation, definition and
\* example records) is a string, the empty string when the stored value is
\* NULL, and never null.
C25_TextFieldsAreStrings ==
    \A t \in {"lexicons", "lexicon_dependencies", "forms", "pronunciations",
              "definitions", "examples"} :
        RecordDone(t) =>
            \A f \in TextFields \cap DOMAIN assembly.out :
                /\ assembly.out[f] # None
                /\ (f \in DOMAIN assembly.row /\ assembly.row[f] = None)
                      => assembly.out[f] = ""

\* C26: a synset the bulk reader assembles that has a proposed definition
\* and no confirmed identifier has the ili 'in'; one that has a confirmed
\* identifier has that identifier, with or without a proposed definition;
\* one that has neither has the empty string.
C26_IliOfSynset ==
    RecordDone("synsets") =>
        /\ (assembly.row.proposed # None /\ assembly.row.ili = None)
              => assembly.out.ili = "in"
        /\ assembly.row.ili # None => assembly.out.ili = assembly.row.ili
        /\ (assembly.row.proposed = None /\ assembly.row.ili = None)
              => assembly.out.ili = ""

\* A synset with a proposed definition and no identifier has been
\* assembled: its ili is 'in' and it carries the definition.
C26_Witness ==
    /\ RecordDone("synsets")
    /\ assembly.row.proposed = "a def"
    /\ assembly.row.ili = None
    /\ assembly.out.ili = "in"
    /\ assembly.out.ili_definition.text = "a def"

====
